---------------------------- MODULE Spec2Model ----------------------------
(***************************************************************************)
(* Model of StructuredMarkdownEditor (src/script.js): the block list, the  *)
(* group and variable tables, the ordering operations, the table mutators, *)
(* the Markdown codec and the persistence of the document snapshot.        *)
(*                                                                         *)
(* Encoding of JavaScript values:                                          *)
(*  - text is a TLA+ string; the k-th character of s is SubSeq(s, k, k);   *)
(*  - the backquote cannot be written in a TLA+ string, so the character   *)
(*    "~" stands for it (Fence is the three-backquote code fence);         *)
(*  - an object is a record; a property that is undefined is a field that  *)
(*    is absent from the record (a block made by importMarkdown has no     *)
(*    order, groupId and selected field);                                  *)
(*  - null is the string Null;                                             *)
(*  - block.content is a string for a text block and an object for a table *)
(*    block; the model tags the two: [text |-> s] and                      *)
(*    [headers |-> h, rows |-> r];                                         *)
(*  - a Map is the sequence of its values in insertion order, each value   *)
(*    carrying its key in the field id;                                    *)
(*  - array indices are the 0-based indices of the source; FindIndex       *)
(*    yields -1 when nothing matches, as Array.prototype.findIndex does.   *)
(***************************************************************************)
EXTENDS Integers, Sequences, FiniteSets, TLC

VARIABLES
    blocks,        \* this.blocks
    variables,     \* this.variables
    groups,        \* this.groups
    groupCounter,  \* this.groupCounter
    storage,       \* localStorage item 'structuredMarkdownEditor'
    nextId,        \* source of the unique part of block and variable ids
    steps,         \* number of operations run since the editor was constructed
    last           \* the operation that ran last, its arguments and outcome

vars == <<blocks, variables, groups, groupCounter, storage, nextId, steps, last>>

doc == <<blocks, variables, groups, groupCounter>>

-----------------------------------------------------------------------------
(* Bounds of the model *)

MaxSteps == 3        \* operations in one run

-----------------------------------------------------------------------------
(* JavaScript values *)

Null == "null"

Fence == "~~~"

Min(a, b) == IF a < b THEN a ELSE b

Max(a, b) == IF a > b THEN a ELSE b

Range(s) == {s[i] : i \in DOMAIN s}

\* arr[i] of the source, i a valid 0-based index
At(arr, i) == arr[i + 1]

\* Array.prototype.findIndex
FindIndex(arr, P(_)) ==
    IF \E i \in DOMAIN arr : P(arr[i])
    THEN (CHOOSE i \in DOMAIN arr : P(arr[i]) /\ \A j \in 1..(i - 1) : ~P(arr[j])) - 1
    ELSE -1

\* Array.prototype.filter
Filter(arr, P(_)) == SelectSeq(arr, P)

\* obj.f, the field read with a default when it is undefined
Has(obj, f) == f \in DOMAIN obj

\* obj.f = v, creating the property when the object does not have it
Assign(obj, f, v) == [k \in (DOMAIN obj) \cup {f} |-> IF k = f THEN v ELSE obj[k]]

\* block.order || 0 and group.order || 0
OrderOf(obj) == IF Has(obj, "order") THEN obj.order ELSE 0

Undefined == "undefined"

\* obj.f, Undefined when the object has no such property
Prop(obj, f) == IF Has(obj, f) THEN obj[f] ELSE Undefined

\* obj.f = src.f: storing undefined leaves the property undefined
AssignFrom(obj, f, src) ==
    IF Has(src, f) THEN Assign(obj, f, src[f])
    ELSE [k \in (DOMAIN obj) \ {f} |-> obj[k]]

GroupIdOf(b) == Prop(b, "groupId")

\* truthiness of block.groupId (undefined and null are falsy, an id is truthy)
HasGroup(b) == GroupIdOf(b) \notin {Null, Undefined}

\* truthiness of block.selected
IsSelected(b) == Has(b, "selected") /\ b.selected

-----------------------------------------------------------------------------
(* Text *)

CharAt(s, k) == SubSeq(s, k, k)

\* F applied to the value of x, x being evaluated once
With(x, F(_)) == CHOOSE r \in {F(v) : v \in {x}} : TRUE

\* String.prototype.startsWith
StartsWith(s, p) == Len(s) >= Len(p) /\ SubSeq(s, 1, Len(p)) = p

\* white space removed by String.prototype.trim, as far as it occurs here
IsSpace(c) == c \in {" ", "\n", "\t", "\r"}

\* least k in from..to with P(k), 0 when there is none
FirstWhere(from, to, P(_)) ==
    IF \E k \in from..to : P(k)
    THEN CHOOSE k \in from..to : P(k) /\ \A j \in from..(k - 1) : ~P(j)
    ELSE 0

\* greatest k in from..to with P(k), 0 when there is none
LastWhere(from, to, P(_)) ==
    IF \E k \in from..to : P(k)
    THEN CHOOSE k \in from..to : P(k) /\ \A j \in (k + 1)..to : ~P(j)
    ELSE 0

\* String.prototype.trim
Trim(text) ==
    With(text, LAMBDA s :
        LET first == FirstWhere(1, Len(s), LAMBDA k : ~IsSpace(CharAt(s, k)))
        IN  IF first = 0 THEN ""
            ELSE SubSeq(s, first,
                        LastWhere(1, Len(s), LAMBDA k : ~IsSpace(CharAt(s, k)))))

\* String.prototype.indexOf, 1-based, 0 when p does not occur in s
IndexOf(text, p) ==
    With(text, LAMBDA s :
        FirstWhere(1, Len(s) - Len(p) + 1, LAMBDA k : SubSeq(s, k, k + Len(p) - 1) = p))

\* String.prototype.includes
Includes(s, p) == Len(p) = 0 \/ IndexOf(s, p) > 0

\* s.split('\n')
RECURSIVE SplitLines(_)
SplitLines(text) ==
    With(text, LAMBDA s :
        With(IndexOf(s, "\n"), LAMBDA k :
            IF k = 0 THEN <<s>>
            ELSE <<SubSeq(s, 1, k - 1)>> \o SplitLines(SubSeq(s, k + 1, Len(s)))))

\* s.replace(new RegExp(pat, 'g'), rep) for a pattern pat that matches the
\* literal text pat only, and a replacement without $ patterns
RECURSIVE ReplaceAll(_, _, _)
ReplaceAll(text, pat, rep) ==
    With(text, LAMBDA s :
        With(IF Len(pat) = 0 THEN 0 ELSE IndexOf(s, pat), LAMBDA k :
            IF k = 0 THEN s
            ELSE SubSeq(s, 1, k - 1) \o rep
                    \o ReplaceAll(SubSeq(s, k + Len(pat), Len(s)), pat, rep)))

-----------------------------------------------------------------------------
(* Sorting *)

\* Array.prototype.sort((a, b) => Key(a) - Key(b)): a stable sort
SortBy(arr, Key(_)) ==
    LET RECURSIVE Sorted(_)
        Sorted(n) ==
            IF n = 0 THEN SubSeq(arr, 1, 0)
            ELSE With(Sorted(n - 1), LAMBDA front :
                     LET x == arr[n]
                         k == Cardinality({i \in DOMAIN front : Key(front[i]) <= Key(x)})
                     IN  SubSeq(front, 1, k) \o <<x>> \o SubSeq(front, k + 1, Len(front)))
    IN  Sorted(Len(arr))

WrapperOrder(w) == w.order

-----------------------------------------------------------------------------
(* The editor object.  A method is an operator from the editor (the record *)
(* self) and the method's arguments to the editor after the call; exc is   *)
(* the exception the call ended with (Null when it returned), alerts the   *)
(* messages it showed with alert().                                        *)

This ==
    [blocks |-> blocks, variables |-> variables, groups |-> groups,
     groupCounter |-> groupCounter, storage |-> storage, nextId |-> nextId,
     exc |-> Null, alerts |-> <<>>]

\* constructor, lines 3-8, before init()
NewEditor(stored, id) ==
    [blocks |-> <<>>, variables |-> <<>>, groups |-> <<>>,
     groupCounter |-> 0, storage |-> stored, nextId |-> id,
     exc |-> Null, alerts |-> <<>>]

Throw(self, e) == [self EXCEPT !.exc = e]

\* the unique token `${Date.now()}_${Math.random()...}` of a new id
FreshId(self, prefix) == prefix \o ToString(self.nextId)

\* Map.prototype.set
MapSet(m, obj) ==
    IF \E i \in DOMAIN m : m[i].id = obj.id
    THEN [i \in DOMAIN m |-> IF m[i].id = obj.id THEN obj ELSE m[i]]
    ELSE Append(m, obj)

\* Map.prototype.delete
MapDelete(m, id) == SelectSeq(m, LAMBDA v : v.id # id)

MapHas(m, id) == \E i \in DOMAIN m : m[i].id = id

\* Array.from(map.entries()), and the entry [id, {key, value}] of a variable
Entries(m) == [i \in DOMAIN m |-> <<m[i].id, m[i]>>]

VariableEntries(m) ==
    [i \in DOMAIN m |-> <<m[i].id, [key |-> m[i].key, value |-> m[i].value]>>]

\* saveToStorage: JSON.stringify leaves out the properties that are undefined
saveToStorage(self) ==
    [self EXCEPT !.storage =
        [kind |-> "json",
         value |-> [blocks |-> self.blocks,
                    variables |-> VariableEntries(self.variables),
                    groups |-> Entries(self.groups),
                    groupCounter |-> self.groupCounter]]]

getDefaultContent(type) ==
    CASE type = "heading" -> [text |-> "# New Heading"]
      [] type = "paragraph" -> [text |-> "New paragraph content..."]
      [] type = "list" -> [text |-> "- Item 1\n- Item 2\n- Item 3"]
      [] type = "code" ->
            [text |-> "~~~javascript\n// Your code here\nconsole.log(\"Hello World\");\n~~~"]
      [] type = "table" ->
            [headers |-> <<"Column 1", "Column 2", "Column 3">>,
             rows |-> << <<"Cell 1", "Cell 2", "Cell 3">>,
                         <<"Cell 4", "Cell 5", "Cell 6">> >>]
      [] OTHER -> [text |-> ""]

BlockTypes == {"heading", "paragraph", "list", "code", "table"}

\* AllOrderedItems with the groups pushed before the ungrouped blocks
MutAllOrderedItemsGroupsFirst(bs, gs) ==
    LET ungrouped == Filter(bs, LAMBDA b : ~HasGroup(b))
        blockItems == [i \in DOMAIN ungrouped |->
                          [type |-> "block", item |-> ungrouped[i],
                           order |-> OrderOf(ungrouped[i])]]
        groupItems == [i \in DOMAIN gs |->
                          [type |-> "group", item |-> gs[i],
                           blocks |-> Filter(bs, LAMBDA b : GroupIdOf(b) = gs[i].id),
                           order |-> OrderOf(gs[i])]]
        nonEmpty == Filter(groupItems, LAMBDA w : Len(w.blocks) > 0)
    IN  SortBy(nonEmpty \o blockItems, WrapperOrder)

\* AllOrderedItems without the test groupBlocks.length > 0 of line 477
MutAllOrderedItemsKeepEmpty(bs, gs) ==
    LET ungrouped == Filter(bs, LAMBDA b : ~HasGroup(b))
        blockItems == [i \in DOMAIN ungrouped |->
                          [type |-> "block", item |-> ungrouped[i],
                           order |-> OrderOf(ungrouped[i])]]
        groupItems == [i \in DOMAIN gs |->
                          [type |-> "group", item |-> gs[i],
                           blocks |-> Filter(bs, LAMBDA b : GroupIdOf(b) = gs[i].id),
                           order |-> OrderOf(gs[i])]]
    IN  SortBy(blockItems \o groupItems, WrapperOrder)

\* the unified list of renderAllContent and getAllOrderedItems
AllOrderedItems(bs, gs) ==
    LET ungrouped == Filter(bs, LAMBDA b : ~HasGroup(b))
        blockItems == [i \in DOMAIN ungrouped |->
                          [type |-> "block", item |-> ungrouped[i],
                           order |-> OrderOf(ungrouped[i])]]
        groupItems == [i \in DOMAIN gs |->
                          [type |-> "group", item |-> gs[i],
                           blocks |-> Filter(bs, LAMBDA b : GroupIdOf(b) = gs[i].id),
                           order |-> OrderOf(gs[i])]]
        nonEmpty == Filter(groupItems, LAMBDA w : Len(w.blocks) > 0)
    IN  SortBy(blockItems \o nonEmpty, WrapperOrder)

getAllOrderedItems(self) == AllOrderedItems(self.blocks, self.groups)

\* new RegExp(`\\{\\{${key}\\}\\}`, 'g') of lines 739 and 757 raises a
\* SyntaxError for a key that opens a group and never closes it.  The keys
\* of the model without "(" are words, for which it returns; a key with "("
\* and another special character is outside the model.
RegExpRaises(key) ==
    /\ \E k \in 1..Len(key) : CharAt(key, k) = "("
    /\ CASE \A k \in 1..Len(key) :
               CharAt(key, k) \notin {")", "[", "]", "{", "}", "*", "+", "?", ".",
                                      "\\", "^", "$", "|", "/"} -> TRUE

\* substituteVariables(text) ends with an exception: new RegExp of line 739
\* raises for a variable with a key.  (evaluateExpression raises at line
\* 757, outside the try of line 762, only for such a variable too.)
substituteVariablesRaises(self) ==
    \E vs \in {self.variables} :
        \E i \in DOMAIN vs : vs[i].key # "" /\ RegExpRaises(vs[i].key)

\* updatePreview(): the preview element is no state of the model, the
\* exception of generateMarkdown is.  generateMarkdown calls
\* substituteVariables for the first block of the first item, lines 778-809.
updatePreview(self) ==
    IF substituteVariablesRaises(self) /\ Len(getAllOrderedItems(self)) > 0
    THEN Throw(self, "SyntaxError")
    ELSE self

\* this.updatePreview(); this.saveToStorage(); at the end of a handler
UpdateAndSave(self) ==
    With(updatePreview(self), LAMBDA shown :
        IF shown.exc # Null THEN shown ELSE saveToStorage(shown))

\* addBlock(type), groupId defaulted to null
addBlock(self, type) ==
    LET block == [id |-> FreshId(self, "block_"),
                  type |-> type,
                  content |-> getDefaultContent(type),
                  groupId |-> Null,
                  selected |-> FALSE,
                  order |-> Len(self.blocks)]
    IN  UpdateAndSave([self EXCEPT !.blocks = Append(self.blocks, block),
                                   !.nextId = self.nextId + 1])

\* addVariable(key, value)
addVariable(self, key, value) ==
    LET variable == [id |-> FreshId(self, "var_"), key |-> key, value |-> value]
    IN  UpdateAndSave([self EXCEPT !.variables = MapSet(self.variables, variable),
                                   !.nextId = self.nextId + 1])

\* deleteVariable(variableId)
deleteVariable(self, variableId) ==
    UpdateAndSave([self EXCEPT !.variables = MapDelete(@, variableId)])

\* handleVariableInput(e), e.target the input of the field (key or value)
\* of variable variableId, holding value
handleVariableInput(self, variableId, field, value) ==
    IF MapHas(self.variables, variableId)
    THEN UpdateAndSave(
            [self EXCEPT !.variables = [i \in DOMAIN self.variables |->
                IF self.variables[i].id = variableId
                THEN [self.variables[i] EXCEPT ![field] = value]
                ELSE self.variables[i]]])
    ELSE self

\* item.item.order = v, on the block or group object the wrapper refers to
SetItemOrder(self, w, v) ==
    IF w.type = "block"
    THEN [self EXCEPT !.blocks =
            [i \in DOMAIN self.blocks |->
                IF self.blocks[i].id = w.item.id
                THEN Assign(self.blocks[i], "order", v) ELSE self.blocks[i]]]
    ELSE [self EXCEPT !.groups =
            [i \in DOMAIN self.groups |->
                IF self.groups[i].id = w.item.id
                THEN Assign(self.groups[i], "order", v) ELSE self.groups[i]]]

\* allItems.findIndex(item => item.type === itemType && item.item.id === itemId)
ItemIndex(allItems, itemType, itemId) ==
    FindIndex(allItems, LAMBDA w : w.type = itemType /\ w.item.id = itemId)

\* moveItemUp with the first item exchanged with the last
MutMoveItemUpWraps(self, itemType, itemId) ==
    LET allItems == getAllOrderedItems(self)
        index == ItemIndex(allItems, itemType, itemId)
        other == IF index > 0 THEN index - 1 ELSE Len(allItems) - 1
    IN  IF index >= 0
        THEN SetItemOrder(SetItemOrder(self, At(allItems, index), At(allItems, other).order),
                          At(allItems, other), At(allItems, index).order)
        ELSE self

\* moveItemUp(itemType, itemId)
moveItemUp(self, itemType, itemId) ==
    LET allItems == getAllOrderedItems(self)
        index == ItemIndex(allItems, itemType, itemId)
    IN  IF index > 0
        THEN LET a == At(allItems, index)
                 b == At(allItems, index - 1)
             IN  SetItemOrder(SetItemOrder(self, a, b.order), b, a.order)
        ELSE self

\* moveItemDown that gives the item the order of its successor and leaves
\* the successor its own (line 448 without line 449)
MutMoveItemDownCopies(self, itemType, itemId) ==
    LET allItems == getAllOrderedItems(self)
        index == ItemIndex(allItems, itemType, itemId)
    IN  IF index < Len(allItems) - 1
        THEN IF index < 0
             THEN Throw(self, "TypeError")
             ELSE SetItemOrder(self, At(allItems, index), At(allItems, index + 1).order)
        ELSE self

\* moveItemDown(itemType, itemId); allItems[-1] is undefined, and reading
\* its order is a TypeError
moveItemDown(self, itemType, itemId) ==
    LET allItems == getAllOrderedItems(self)
        index == ItemIndex(allItems, itemType, itemId)
    IN  IF index < Len(allItems) - 1
        THEN IF index < 0
             THEN Throw(self, "TypeError")
             ELSE LET a == At(allItems, index)
                      b == At(allItems, index + 1)
                  IN  SetItemOrder(SetItemOrder(self, a, b.order), b, a.order)
        ELSE self

\* the members of a group sorted by (a.order || 0) - (b.order || 0)
SortedGroupBlocks(bs, groupId) ==
    SortBy(Filter(bs, LAMBDA b : GroupIdOf(b) = groupId), OrderOf)

\* the exchange of the order properties of two blocks of this.blocks
SwapBlockOrder(self, x, y) ==
    [self EXCEPT !.blocks =
        [i \in DOMAIN self.blocks |->
            IF self.blocks[i].id = x.id THEN AssignFrom(self.blocks[i], "order", y)
            ELSE IF self.blocks[i].id = y.id THEN AssignFrom(self.blocks[i], "order", x)
            ELSE self.blocks[i]]]

BlockIndex(self, blockId) == FindIndex(self.blocks, LAMBDA b : b.id = blockId)

\* moveBlockUp(blockId)
moveBlockUp(self, blockId) ==
    IF BlockIndex(self, blockId) < 0 THEN self
    ELSE LET block == At(self.blocks, BlockIndex(self, blockId))
             groupBlocks == SortedGroupBlocks(self.blocks, GroupIdOf(block))
             index == FindIndex(groupBlocks, LAMBDA b : b.id = blockId)
             moved == IF HasGroup(block)
                      THEN IF index > 0
                           THEN SwapBlockOrder(self, At(groupBlocks, index),
                                               At(groupBlocks, index - 1))
                           ELSE self
                      ELSE moveItemUp(self, "block", blockId)
         IN  IF moved.exc # Null THEN moved ELSE UpdateAndSave(moved)

\* moveBlockDown(blockId)
moveBlockDown(self, blockId) ==
    IF BlockIndex(self, blockId) < 0 THEN self
    ELSE LET block == At(self.blocks, BlockIndex(self, blockId))
             groupBlocks == SortedGroupBlocks(self.blocks, GroupIdOf(block))
             index == FindIndex(groupBlocks, LAMBDA b : b.id = blockId)
             moved == IF HasGroup(block)
                      THEN IF index < Len(groupBlocks) - 1
                           THEN SwapBlockOrder(self, At(groupBlocks, index),
                                               At(groupBlocks, index + 1))
                           ELSE self
                      ELSE moveItemDown(self, "block", blockId)
         IN  IF moved.exc # Null THEN moved ELSE UpdateAndSave(moved)

\* moveGroupUp(groupId)
moveGroupUp(self, groupId) ==
    LET moved == moveItemUp(self, "group", groupId)
    IN  IF moved.exc # Null THEN moved ELSE UpdateAndSave(moved)

\* moveGroupDown(groupId)
moveGroupDown(self, groupId) ==
    LET moved == moveItemDown(self, "group", groupId)
    IN  IF moved.exc # Null THEN moved ELSE UpdateAndSave(moved)

\* deleteBlock(blockId)
deleteBlock(self, blockId) ==
    UpdateAndSave([self EXCEPT !.blocks = Filter(@, LAMBDA b : b.id # blockId)])

\* Math.min(...arr.map(Key)) of a non-empty array
MinOf(arr, Key(_)) ==
    CHOOSE m \in {Key(arr[i]) : i \in DOMAIN arr} :
        \A i \in DOMAIN arr : m <= Key(arr[i])

\* `Group ${n}` and `group_${n}`
GroupName(n) == "Group " \o ToString(n)

GroupId(n) == "group_" \o ToString(n)

\* lines 504-524 of groupSelectedBlocks: the group made of selectedBlocks
GroupBlocks(self, selectedBlocks) ==
    LET groupId == GroupId(self.groupCounter)
        counter == self.groupCounter + 1
        groupName == GroupName(counter)
        minOrder == MinOf(selectedBlocks, OrderOf)
        group == [id |-> groupId, name |-> groupName, order |-> minOrder]
        SelIndex(b) == FindIndex(selectedBlocks, LAMBDA x : x.id = b.id)
    IN  UpdateAndSave(
           [self EXCEPT
              !.groupCounter = counter,
              !.groups = MapSet(self.groups, group),
              !.blocks = [i \in DOMAIN self.blocks |->
                  IF SelIndex(self.blocks[i]) >= 0
                  THEN Assign(Assign(Assign(self.blocks[i], "groupId", groupId),
                                     "selected", FALSE),
                              "order", SelIndex(self.blocks[i]))
                  ELSE self.blocks[i]]])

SelectedUngrouped(bs) == Filter(bs, LAMBDA b : IsSelected(b) /\ ~HasGroup(b))

Notice == "Please select at least 2 blocks to group"

\* groupSelectedBlocks with the test selectedBlocks.length < 1
MutGroupSelectedBlocksOne(self) ==
    LET selectedBlocks == SelectedUngrouped(self.blocks)
    IN  IF Len(selectedBlocks) < 1
        THEN [self EXCEPT !.alerts = Append(self.alerts, Notice)]
        ELSE GroupBlocks(self, selectedBlocks)

\* groupSelectedBlocks()
groupSelectedBlocks(self) ==
    LET selectedBlocks == SelectedUngrouped(self.blocks)
    IN  IF Len(selectedBlocks) < 2
        THEN [self EXCEPT !.alerts = Append(self.alerts, Notice)]
        ELSE GroupBlocks(self, selectedBlocks)

\* ungroupBlocks that removes the group and leaves the groupId of its
\* members (line 534 without lines 529-532)
MutUngroupKeepsGroupId(self, groupId) ==
    UpdateAndSave([self EXCEPT !.groups = MapDelete(@, groupId)])

\* ungroupBlocks(groupId)
ungroupBlocks(self, groupId) ==
    UpdateAndSave(
        [self EXCEPT
           !.blocks = [i \in DOMAIN self.blocks |->
               IF GroupIdOf(self.blocks[i]) = groupId
               THEN Assign(self.blocks[i], "groupId", Null)
               ELSE self.blocks[i]],
           !.groups = MapDelete(self.groups, groupId)])

\* deleteGroup that releases the members as ungroupBlocks does
MutDeleteGroupKeepsBlocks(self, groupId) ==
    UpdateAndSave(
        [self EXCEPT
           !.blocks = [i \in DOMAIN self.blocks |->
               IF GroupIdOf(self.blocks[i]) = groupId
               THEN Assign(self.blocks[i], "groupId", Null)
               ELSE self.blocks[i]],
           !.groups = MapDelete(self.groups, groupId)])

\* deleteGroup that gives the number of the group back to groupCounter
MutDeleteGroupRecycles(self, groupId) ==
    UpdateAndSave(
        [self EXCEPT
           !.blocks = Filter(self.blocks, LAMBDA b : GroupIdOf(b) # groupId),
           !.groups = MapDelete(self.groups, groupId),
           !.groupCounter = IF MapHas(self.groups, groupId) THEN @ - 1 ELSE @])

\* deleteGroup(groupId)
deleteGroup(self, groupId) ==
    UpdateAndSave(
        [self EXCEPT
           !.blocks = Filter(self.blocks, LAMBDA b : GroupIdOf(b) # groupId),
           !.groups = MapDelete(self.groups, groupId)])

\* handleBlockSelection(e), e.target the checkbox of block blockId
handleBlockSelection(self, blockId, checked) ==
    IF BlockIndex(self, blockId) < 0 THEN self
    ELSE saveToStorage(
            [self EXCEPT !.blocks = [i \in DOMAIN self.blocks |->
                IF self.blocks[i].id = blockId
                THEN Assign(self.blocks[i], "selected", checked)
                ELSE self.blocks[i]]])

\* arr.splice(start, 1): the array without the element removed
SpliceOut(arr, start) ==
    LET from == IF start < 0 THEN Max(Len(arr) + start, 0) ELSE Min(start, Len(arr))
    IN  SubSeq(arr, 1, from) \o SubSeq(arr, from + 2, Len(arr))

\* arr.splice(start, 0, x)
SpliceIn(arr, start, x) ==
    LET from == IF start < 0 THEN Max(Len(arr) + start, 0) ELSE Min(start, Len(arr))
    IN  SubSeq(arr, 1, from) \o <<x>> \o SubSeq(arr, from + 1, Len(arr))

\* handleDrop(targetElement), this.draggedBlock the element of block
\* draggedId and targetElement the element of block targetId
handleDrop(self, draggedId, targetId) ==
    LET draggedIndex == BlockIndex(self, draggedId)
        targetIndex == BlockIndex(self, targetId)
    IN  IF draggedId # targetId /\ draggedIndex # -1 /\ targetIndex # -1
        THEN UpdateAndSave(
                [self EXCEPT !.blocks =
                    SpliceIn(SpliceOut(self.blocks, draggedIndex), targetIndex,
                             At(self.blocks, draggedIndex))])
        ELSE self

\* handleGroupDrop(targetElement), this.draggedGroup the element of group
\* draggedGroupId and targetElement the element of group targetGroupId
handleGroupDrop(self, draggedGroupId, targetGroupId) ==
    LET groupsArray == self.groups
        draggedIndex == FindIndex(groupsArray, LAMBDA g : g.id = draggedGroupId)
        targetIndex == FindIndex(groupsArray, LAMBDA g : g.id = targetGroupId)
    IN  IF draggedGroupId # targetGroupId /\ draggedIndex # -1 /\ targetIndex # -1
        THEN UpdateAndSave(
                [self EXCEPT !.groups =
                    SpliceIn(SpliceOut(groupsArray, draggedIndex), targetIndex,
                             At(groupsArray, draggedIndex))])
        ELSE self

\* the block of this.blocks with id blockId changed by Change, when it is a table
ChangeTable(self, blockId, Change(_)) ==
    [self EXCEPT !.blocks = [i \in DOMAIN self.blocks |->
        IF self.blocks[i].id = blockId
        THEN [self.blocks[i] EXCEPT !.content = Change(@)]
        ELSE self.blocks[i]]]

IsTable(self, blockId) ==
    /\ BlockIndex(self, blockId) >= 0
    /\ At(self.blocks, BlockIndex(self, blockId)).type = "table"

TableOf(self, blockId) == At(self.blocks, BlockIndex(self, blockId)).content

\* addTableRow(blockId)
addTableRow(self, blockId) ==
    IF IsTable(self, blockId)
    THEN UpdateAndSave(ChangeTable(self, blockId,
            LAMBDA t : [t EXCEPT !.rows = Append(@, [c \in DOMAIN t.headers |-> ""])]))
    ELSE self

\* addTableColumn without the cell pushed to each row (line 577)
MutAddTableColumnHeaderOnly(self, blockId) ==
    IF IsTable(self, blockId)
    THEN UpdateAndSave(ChangeTable(self, blockId,
            LAMBDA t : [t EXCEPT !.headers = Append(@, "New Column")]))
    ELSE self

\* addTableColumn(blockId)
addTableColumn(self, blockId) ==
    IF IsTable(self, blockId)
    THEN UpdateAndSave(ChangeTable(self, blockId,
            LAMBDA t : [headers |-> Append(t.headers, "New Column"),
                        rows |-> [r \in DOMAIN t.rows |-> Append(t.rows[r], "")]]))
    ELSE self

\* deleteTableRow(blockId, rowIndex)
deleteTableRow(self, blockId, rowIndex) ==
    IF IsTable(self, blockId) /\ Len(TableOf(self, blockId).rows) > 1
    THEN UpdateAndSave(ChangeTable(self, blockId,
            LAMBDA t : [t EXCEPT !.rows = SpliceOut(@, rowIndex)]))
    ELSE self

\* deleteTableColumn(blockId, colIndex)
deleteTableColumn(self, blockId, colIndex) ==
    IF IsTable(self, blockId) /\ Len(TableOf(self, blockId).headers) > 1
    THEN UpdateAndSave(ChangeTable(self, blockId,
            LAMBDA t : [headers |-> SpliceOut(t.headers, colIndex),
                        rows |-> [r \in DOMAIN t.rows |-> SpliceOut(t.rows[r], colIndex)]]))
    ELSE self

\* handleBlockInput(e), e.target the textarea of block blockId holding value
handleBlockInput(self, blockId, value) ==
    IF BlockIndex(self, blockId) < 0 THEN self
    ELSE UpdateAndSave(
            [self EXCEPT !.blocks = [i \in DOMAIN self.blocks |->
                IF self.blocks[i].id = blockId
                THEN [self.blocks[i] EXCEPT !.content = [text |-> value]]
                ELSE self.blocks[i]]])

-----------------------------------------------------------------------------
(* Arithmetic of evaluateExpression.  eval() is given a text of digits,    *)
(* white space and + - * / ( ) . only.  A number is the exact rational      *)
(* [n, d]; the rounding of IEEE doubles is not modelled.  EvalArith yields  *)
(* [kind |-> "value", text |-> t] when eval returns a number printed as t,  *)
(* [kind |-> "error"] when eval or toString throws (SyntaxError, TypeError) *)
(* and [kind |-> "unsupported"] for what the model does not evaluate:       *)
(* comments, regular expression literals, **, a division by zero, a        *)
(* quotient without a finite decimal expansion.                            *)

IsDigit(c) == c \in {"0", "1", "2", "3", "4", "5", "6", "7", "8", "9"}

DigitValue(c) ==
    CASE c = "0" -> 0 [] c = "1" -> 1 [] c = "2" -> 2 [] c = "3" -> 3
      [] c = "4" -> 4 [] c = "5" -> 5 [] c = "6" -> 6 [] c = "7" -> 7
      [] c = "8" -> 8 [] c = "9" -> 9

Abs(n) == IF n < 0 THEN -n ELSE n

RECURSIVE Gcd(_, _)
Gcd(a, b) == IF b = 0 THEN a ELSE Gcd(b, a % b)

RECURSIVE Pow10(_)
Pow10(k) == IF k = 0 THEN 1 ELSE 10 * Pow10(k - 1)

Rat(n, d) ==
    With(Gcd(Abs(n), Abs(d)), LAMBDA g :
        LET sign == IF d < 0 THEN -1 ELSE 1
        IN  [n |-> sign * (n \div g), d |-> sign * (d \div g)])

\* position of the first character of s at or after k that is not white space
RECURSIVE SkipSpace(_, _)
SkipSpace(s, k) ==
    IF k <= Len(s) /\ IsSpace(CharAt(s, k)) THEN SkipSpace(s, k + 1) ELSE k

\* position after the digits of s that start at k
RECURSIVE SkipDigits(_, _)
SkipDigits(s, k) ==
    IF k <= Len(s) /\ IsDigit(CharAt(s, k)) THEN SkipDigits(s, k + 1) ELSE k

\* value of the digits s[from .. to - 1]
RECURSIVE DigitsValue(_, _, _)
DigitsValue(s, from, to) ==
    IF to <= from THEN 0
    ELSE 10 * DigitsValue(s, from, to - 1) + DigitValue(CharAt(s, to - 1))

Failed(kind) == [kind |-> kind]

Parsed(val, pos) == [kind |-> "value", val |-> val, pos |-> pos]

\* a decimal literal at k: digits, digits.digits, digits. or .digits
ParseNumber(s, k) ==
    With(SkipDigits(s, k), LAMBDA intEnd :
    With(intEnd <= Len(s) /\ CharAt(s, intEnd) = ".", LAMBDA hasDot :
    With(IF hasDot THEN SkipDigits(s, intEnd + 1) ELSE intEnd, LAMBDA fracEnd :
    With(IF hasDot THEN fracEnd - intEnd - 1 ELSE 0, LAMBDA fracLen :
        IF intEnd = k /\ fracLen = 0 THEN Failed("error")
        ELSE IF intEnd - k > 1 /\ CharAt(s, k) = "0" THEN Failed("error")
        ELSE IF fracEnd <= Len(s) /\ (IsDigit(CharAt(s, fracEnd)) \/ CharAt(s, fracEnd) = ".")
             THEN Failed("error")
        ELSE Parsed(Rat(DigitsValue(s, k, intEnd) * Pow10(fracLen)
                          + DigitsValue(s, intEnd + 1, fracEnd), Pow10(fracLen)),
                    fracEnd)))))

RECURSIVE ParseExpr(_, _), ParseTerm(_, _), ParseFactor(_, _), ExprRest(_, _, _), TermRest(_, _, _)

ParseFactor(s, k0) ==
    With(SkipSpace(s, k0), LAMBDA k :
        LET c == IF k <= Len(s) THEN CharAt(s, k) ELSE ""
            d == IF k + 1 <= Len(s) THEN CharAt(s, k + 1) ELSE ""
        IN  IF c = "" THEN Failed("error")
            ELSE IF c \in {"+", "-"}
                 THEN IF d = c THEN Failed("error")
                      ELSE With(ParseFactor(s, k + 1), LAMBDA f :
                               IF f.kind # "value" THEN f
                               ELSE IF c = "-" THEN Parsed(Rat(-f.val.n, f.val.d), f.pos)
                               ELSE f)
            ELSE IF c = "("
                 THEN With(ParseExpr(s, k + 1), LAMBDA e :
                          IF e.kind # "value" THEN e
                          ELSE With(SkipSpace(s, e.pos), LAMBDA close :
                                   IF close <= Len(s) /\ CharAt(s, close) = ")"
                                   THEN Parsed(e.val, close + 1)
                                   ELSE Failed("error")))
            ELSE IF c = "/" THEN Failed("unsupported")
            ELSE IF c \in {"*", ")"} THEN Failed("error")
            ELSE ParseNumber(s, k))

TermRest(s, left, k0) ==
    With(SkipSpace(s, k0), LAMBDA k :
        LET c == IF k <= Len(s) THEN CharAt(s, k) ELSE ""
            d == IF k + 1 <= Len(s) THEN CharAt(s, k + 1) ELSE ""
        IN  IF c \notin {"*", "/"} THEN Parsed(left, k)
            ELSE IF d \in {"*", "/"} THEN Failed("unsupported")
            ELSE With(ParseFactor(s, k + 1), LAMBDA f :
                     IF f.kind # "value" THEN f
                     ELSE IF c = "/" /\ f.val.n = 0 THEN Failed("unsupported")
                     ELSE With(IF c = "*"
                               THEN Rat(left.n * f.val.n, left.d * f.val.d)
                               ELSE Rat(left.n * f.val.d, left.d * f.val.n),
                               LAMBDA product : TermRest(s, product, f.pos))))

ParseTerm(s, k) ==
    With(ParseFactor(s, k), LAMBDA f :
        IF f.kind # "value" THEN f ELSE TermRest(s, f.val, f.pos))

ExprRest(s, left, k0) ==
    With(SkipSpace(s, k0), LAMBDA k :
        LET c == IF k <= Len(s) THEN CharAt(s, k) ELSE ""
            d == IF k + 1 <= Len(s) THEN CharAt(s, k + 1) ELSE ""
        IN  IF c \notin {"+", "-"} THEN Parsed(left, k)
            ELSE IF d = c THEN Failed("error")
            ELSE With(ParseTerm(s, k + 1), LAMBDA t :
                     IF t.kind # "value" THEN t
                     ELSE With(IF c = "+"
                               THEN Rat(left.n * t.val.d + t.val.n * left.d,
                                        left.d * t.val.d)
                               ELSE Rat(left.n * t.val.d - t.val.n * left.d,
                                        left.d * t.val.d),
                               LAMBDA sum : ExprRest(s, sum, t.pos))))

ParseExpr(s, k) ==
    With(ParseTerm(s, k), LAMBDA t :
        IF t.kind # "value" THEN t ELSE ExprRest(s, t.val, t.pos))

\* least k <= 6 with d dividing 10^k, -1 when there is none
DecimalPlaces(d) ==
    IF \E k \in 0..6 : Pow10(k) % d = 0
    THEN CHOOSE k \in 0..6 : Pow10(k) % d = 0 /\ \A j \in 0..(k - 1) : Pow10(j) % d # 0
    ELSE -1

\* the digits of n, at least width of them
RECURSIVE PadDigits(_, _)
PadDigits(n, width) ==
    IF Len(ToString(n)) >= width THEN ToString(n)
    ELSE "0" \o PadDigits(n, width - 1)

\* Number.prototype.toString of the rational r
NumberToString(r) ==
    With(DecimalPlaces(r.d), LAMBDA k :
        With(Abs(r.n) * (Pow10(k) \div r.d), LAMBDA scaled :
            IF k = 0 THEN ToString(r.n)
            ELSE (IF r.n < 0 THEN "-" ELSE "")
                     \o ToString(scaled \div Pow10(k)) \o "."
                     \o PadDigits(scaled % Pow10(k), k)))

\* eval(mathExpression).toString()
EvalArith(text) ==
    With(text, LAMBDA s :
        IF SkipSpace(s, 1) > Len(s) THEN Failed("error")
        ELSE With(ParseExpr(s, 1), LAMBDA e :
                 IF e.kind # "value" THEN e
                 ELSE With(SkipSpace(s, e.pos), LAMBDA end :
                          IF end <= Len(s)
                          THEN IF \/ CharAt(s, end) \in {"(", ")", "."}
                                  \/ IsDigit(CharAt(s, end))
                               THEN Failed("error") ELSE Failed("unsupported")
                          ELSE IF DecimalPlaces(e.val.d) < 0 THEN Failed("unsupported")
                          ELSE [kind |-> "value", text |-> NumberToString(e.val)])))

\* /^[\d\s+\-*/().]+$/.test(s)
IsArithmeticText(s) ==
    /\ Len(s) > 0
    /\ \A k \in 1..Len(s) :
          \/ IsDigit(CharAt(s, k))
          \/ IsSpace(CharAt(s, k))
          \/ CharAt(s, k) \in {"+", "-", "*", "/", "(", ")", "."}

-----------------------------------------------------------------------------
(* Variable Store *)

\* the text the pattern `\{\{${key}\}\}` matches, key a word
Placeholder(key) == "{{" \o key \o "}}"

\* evaluateExpression without the test !variable.value.includes('{{') of
\* line 756
MutEvaluateExpressionNested(self, expression) ==
    LET vs == self.variables
        RECURSIVE Replaced(_)
        Replaced(n) ==
            IF n = 0 THEN expression
            ELSE IF vs[n].key # ""
                 THEN ReplaceAll(Replaced(n - 1), Placeholder(vs[n].key), vs[n].value)
                 ELSE Replaced(n - 1)
    IN  With(Replaced(Len(vs)), LAMBDA result :
        With(ReplaceAll(ReplaceAll(result, "{{", ""), "}}", ""), LAMBDA mathExpression :
            IF IsArithmeticText(mathExpression)
            THEN With(EvalArith(mathExpression), LAMBDA r :
                     CASE r.kind = "value" -> r.text
                       [] r.kind = "error" -> result)
            ELSE result))

\* evaluateExpression(expression)
evaluateExpression(self, expression) ==
    LET vs == self.variables
        RECURSIVE Replaced(_)
        Replaced(n) ==
            IF n = 0 THEN expression
            ELSE IF vs[n].key # "" /\ ~Includes(vs[n].value, "{{")
                 THEN ReplaceAll(Replaced(n - 1), Placeholder(vs[n].key), vs[n].value)
                 ELSE Replaced(n - 1)
    IN  With(Replaced(Len(vs)), LAMBDA result :
        With(ReplaceAll(ReplaceAll(result, "{{", ""), "}}", ""), LAMBDA mathExpression :
            IF IsArithmeticText(mathExpression)
            THEN With(EvalArith(mathExpression), LAMBDA r :
                     CASE r.kind = "value" -> r.text
                       [] r.kind = "error" -> result)
            ELSE result))

\* substituteVariables(text)
substituteVariables(self, text) ==
    LET vs == self.variables
        Value(v) == IF Includes(v.value, "{{") /\ Includes(v.value, "}}")
                    THEN evaluateExpression(self, v.value)
                    ELSE v.value
        RECURSIVE Substituted(_)
        Substituted(n) ==
            IF n = 0 THEN text
            ELSE IF vs[n].key # ""
                 THEN ReplaceAll(Substituted(n - 1), Placeholder(vs[n].key), Value(vs[n]))
                 ELSE Substituted(n - 1)
    IN  Substituted(Len(vs))

-----------------------------------------------------------------------------
(* Markdown Codec *)

\* the concatenation of Piece(arr[i]) for the elements of arr in order
Concat(arr, Piece(_)) ==
    LET RECURSIVE Joined(_)
        Joined(n) == IF n = 0 THEN "" ELSE Joined(n - 1) \o Piece(arr[n])
    IN  Joined(Len(arr))

\* generateTableMarkdown without the separator line of lines 822-825
MutTableWithoutSeparator(tableData) ==
    "|" \o Concat(tableData.headers, LAMBDA header : " " \o header \o " |")
        \o "\n"
        \o Concat(tableData.rows,
                  LAMBDA row : "|" \o Concat(row, LAMBDA cell : " " \o cell \o " |") \o "\n")

\* generateTableMarkdown(tableData)
generateTableMarkdown(tableData) ==
    "|" \o Concat(tableData.headers, LAMBDA header : " " \o header \o " |")
        \o "\n|" \o Concat(tableData.headers, LAMBDA header : " --- |")
        \o "\n"
        \o Concat(tableData.rows,
                  LAMBDA row : "|" \o Concat(row, LAMBDA cell : " " \o cell \o " |") \o "\n")

\* EmittedBlocks without the sort of line 794
MutEmittedUnsorted(self) ==
    LET orderedItems == getAllOrderedItems(self)
        RECURSIVE Visited(_)
        Visited(n) ==
            IF n = 0 THEN <<>>
            ELSE Visited(n - 1) \o
                 (IF orderedItems[n].type = "block"
                  THEN <<orderedItems[n].item>>
                  ELSE orderedItems[n].blocks)
    IN  Visited(Len(orderedItems))

\* the blocks generateMarkdown appends the content of, in the order it
\* visits them (lines 780-809)
EmittedBlocks(self) ==
    LET orderedItems == getAllOrderedItems(self)
        RECURSIVE Visited(_)
        Visited(n) ==
            IF n = 0 THEN <<>>
            ELSE Visited(n - 1) \o
                 (IF orderedItems[n].type = "block"
                  THEN <<orderedItems[n].item>>
                  ELSE SortBy(orderedItems[n].blocks, OrderOf))
    IN  Visited(Len(orderedItems))

\* the blocks renderAllContent shows, in the order it appends them to the
\* container (lines 113-120); renderGroup lists the members of a group as
\* the filter of line 99 returned them (line 169)
RenderedBlocks(self) ==
    LET orderedItems == getAllOrderedItems(self)
        RECURSIVE Shown(_)
        Shown(n) ==
            IF n = 0 THEN <<>>
            ELSE Shown(n - 1) \o
                 (IF orderedItems[n].type = "block"
                  THEN <<orderedItems[n].item>>
                  ELSE orderedItems[n].blocks)
    IN  Shown(Len(orderedItems))

\* lines 782-791 and 797-806: what one block adds to the markdown
EmittedText(self, block) ==
    LET content == IF block.type = "table"
                   THEN generateTableMarkdown(block.content)
                   ELSE block.content.text
    IN  substituteVariables(self, content) \o "\n\n"

\* generateMarkdown()
generateMarkdown(self) ==
    Trim(Concat(EmittedBlocks(self), LAMBDA block : EmittedText(self, block)))

\* finishCurrentBlock(block); an open block is a one-element sequence,
\* null the empty sequence
finishCurrentBlock(self, current) ==
    IF Len(current) > 0
    THEN [self EXCEPT !.blocks = Append(self.blocks,
                                        Assign(current[1], "id", FreshId(self, "block_"))),
                      !.nextId = self.nextId + 1]
    ELSE self

\* ImportLine in which a blank line closes the open block
MutImportLineBlankCloses(st, line) ==
    LET self == st.self
        current == st.current
        IsOpen(type) == Len(current) > 0 /\ current[1].type = type
        Continued == <<[current[1] EXCEPT !.content.text = @ \o "\n" \o line]>>
        Opened(type) == [self |-> finishCurrentBlock(self, current),
                         current |-> <<[type |-> type, content |-> [text |-> line]]>>]
    IN  IF StartsWith(line, "#") THEN Opened("heading")
        ELSE IF StartsWith(line, Fence)
             THEN IF IsOpen("code")
                  THEN [self |-> finishCurrentBlock(self, Continued), current |-> <<>>]
                  ELSE Opened("code")
        ELSE IF StartsWith(line, "- ") \/ StartsWith(line, "* ")
             THEN IF IsOpen("list")
                  THEN [self |-> self, current |-> Continued]
                  ELSE Opened("list")
        ELSE IF Trim(line) # ""
             THEN IF IsOpen("paragraph") \/ IsOpen("code") \/ IsOpen("list")
                  THEN [self |-> self, current |-> Continued]
                  ELSE Opened("paragraph")
        ELSE [self |-> finishCurrentBlock(self, current), current |-> <<>>]

\* one round of lines.forEach in importMarkdown: st.self is the editor,
\* st.current the open block
ImportLine(st, line) ==
    LET self == st.self
        current == st.current
        IsOpen(type) == Len(current) > 0 /\ current[1].type = type
        Continued == <<[current[1] EXCEPT !.content.text = @ \o "\n" \o line]>>
        Opened(type) == [self |-> finishCurrentBlock(self, current),
                         current |-> <<[type |-> type, content |-> [text |-> line]]>>]
    IN  IF StartsWith(line, "#") THEN Opened("heading")
        ELSE IF StartsWith(line, Fence)
             THEN IF IsOpen("code")
                  THEN [self |-> finishCurrentBlock(self, Continued), current |-> <<>>]
                  ELSE Opened("code")
        ELSE IF StartsWith(line, "- ") \/ StartsWith(line, "* ")
             THEN IF IsOpen("list")
                  THEN [self |-> self, current |-> Continued]
                  ELSE Opened("list")
        ELSE IF Trim(line) # ""
             THEN IF IsOpen("paragraph") \/ IsOpen("code") \/ IsOpen("list")
                  THEN [self |-> self, current |-> Continued]
                  ELSE Opened("paragraph")
        ELSE st

\* importMarkdown without the finishCurrentBlock of line 922
MutImportWithoutLastBlock(self, markdown) ==
    LET lines == SplitLines(markdown)
        RECURSIVE After(_)
        After(n) ==
            IF n = 0 THEN [self |-> [self EXCEPT !.blocks = <<>>], current |-> <<>>]
            ELSE With(After(n - 1), LAMBDA st : ImportLine(st, lines[n]))
    IN  With(After(Len(lines)), LAMBDA end : UpdateAndSave(end.self))

\* importMarkdown(markdown)
importMarkdown(self, markdown) ==
    LET lines == SplitLines(markdown)
        RECURSIVE After(_)
        After(n) ==
            IF n = 0 THEN [self |-> [self EXCEPT !.blocks = <<>>], current |-> <<>>]
            ELSE With(After(n - 1), LAMBDA st : ImportLine(st, lines[n]))
    IN  With(After(Len(lines)), LAMBDA end :
             UpdateAndSave(finishCurrentBlock(end.self, end.current)))

-----------------------------------------------------------------------------
(* Persistence.  The stored item is one of                                 *)
(*   [kind |-> "absent"]    getItem returns null                           *)
(*   [kind |-> "invalid"]   a text JSON.parse rejects                      *)
(*   [kind |-> "null"]      the JSON text null                             *)
(*   [kind |-> "json", value |-> v]  a JSON object v, a property it lacks  *)
(*                          being an absent field; v.variables and         *)
(*                          v.groups are arrays of entries [id, object]    *)
(*   [kind |-> "badmap", value |-> v]  as "json", but v.variables is a     *)
(*                          number, which new Map() rejects                *)

\* new Map(entries) of group entries
GroupsFromEntries(entries) ==
    LET RECURSIVE Built(_)
        Built(n) == IF n = 0 THEN <<>> ELSE MapSet(Built(n - 1), entries[n][2])
    IN  Built(Len(entries))

\* new Map(entries) of variable entries
VariablesFromEntries(entries) ==
    LET RECURSIVE Built(_)
        Built(n) ==
            IF n = 0 THEN <<>>
            ELSE MapSet(Built(n - 1),
                        [id |-> entries[n][1], key |-> entries[n][2].key,
                         value |-> entries[n][2].value])
    IN  Built(Len(entries))

\* lines 957-964: order and selected of a loaded block that lacks them
DefaultBlockFields(bs) ==
    [i \in DOMAIN bs |->
        LET b == IF Has(bs[i], "order") THEN bs[i] ELSE Assign(bs[i], "order", i - 1)
        IN  IF Has(b, "selected") THEN b ELSE Assign(b, "selected", FALSE)]

\* lines 967-972: order of a loaded group that lacks it
DefaultGroupFields(gs) ==
    [i \in DOMAIN gs |->
        IF Has(gs[i], "order") THEN gs[i]
        ELSE Assign(gs[i], "order",
                    Cardinality({j \in 1..(i - 1) : ~Has(gs[j], "order")}))]

\* the else branch of loadFromStorage, lines 980-988
Bootstrap(self) ==
    addBlock(addBlock(addBlock(
        addVariable(addVariable(addVariable(addVariable(addVariable(self,
            "product_name", "Awesome Gadget"),
            "release_date", "2024-10-26"),
            "price", "1000"),
            "tax", "0.2"),
            "total", "{{price}}*{{tax}}"),
        "heading"), "paragraph"), "table")

\* loadFromStorage()
loadFromStorage(self) ==
    LET data == self.storage IN
    CASE data.kind = "absent" -> Bootstrap(self)
      [] data.kind = "invalid" -> self   \* SyntaxError of JSON.parse, caught
      [] data.kind = "null" -> self      \* TypeError of parsed.blocks, caught
      [] data.kind = "badmap" ->         \* TypeError of new Map(), caught
            [self EXCEPT !.blocks = IF Has(data.value, "blocks")
                                    THEN data.value.blocks ELSE <<>>]
      [] data.kind = "json" ->
            LET parsed == data.value IN
            [self EXCEPT
               !.blocks = DefaultBlockFields(
                              IF Has(parsed, "blocks") THEN parsed.blocks ELSE <<>>),
               !.variables = VariablesFromEntries(
                              IF Has(parsed, "variables") THEN parsed.variables ELSE <<>>),
               !.groups = DefaultGroupFields(GroupsFromEntries(
                              IF Has(parsed, "groups") THEN parsed.groups ELSE <<>>)),
               !.groupCounter = IF Has(parsed, "groupCounter")
                                THEN parsed.groupCounter ELSE 0]

\* new StructuredMarkdownEditor(): the constructor and init()
Construct(stored, id) == updatePreview(loadFromStorage(NewEditor(stored, id)))

-----------------------------------------------------------------------------
(* State machine *)

\* the editor after the call, and the record of the call
Commit(after, call) ==
    /\ steps < MaxSteps
    /\ steps' = steps + 1
    /\ \E self \in {after} :
          /\ blocks' = self.blocks
          /\ variables' = self.variables
          /\ groups' = self.groups
          /\ groupCounter' = self.groupCounter
          /\ storage' = self.storage
          /\ nextId' = self.nextId
          /\ last' = call @@ [exc |-> self.exc, alerts |-> self.alerts]

\* an id no block has, and an id no group has
StaleBlockId == "block_stale"

StaleGroupId == "group_stale"

BlockIds == {blocks[i].id : i \in DOMAIN blocks}

GroupIds == {groups[i].id : i \in DOMAIN groups}

\* The editor of an earlier session: constructed with nothing stored, it
\* got two more paragraphs, its first and third block were grouped, and its
\* second and fourth block are selected.  What it stored is what a later
\* session is constructed from.
EarlierSession ==
    LET boot == Construct([kind |-> "absent"], 0)
        five == addBlock(addBlock(boot, "paragraph"), "paragraph")
        Pick(self, i) == handleBlockSelection(self, self.blocks[i].id, TRUE)
        one == groupSelectedBlocks(Pick(Pick(five, 1), 3))
    IN  Pick(Pick(one, 2), 4)

\* what localStorage holds when the editor is constructed, and the ids minted
\* before
Sessions ==
    {[stored |-> [kind |-> "absent"], nextId |-> 0],
     [stored |-> EarlierSession.storage, nextId |-> EarlierSession.nextId]}

\* the state after new StructuredMarkdownEditor()
Constructed(session) ==
    LET self == Construct(session.stored, session.nextId) IN
    /\ blocks = self.blocks
    /\ variables = self.variables
    /\ groups = self.groups
    /\ groupCounter = self.groupCounter
    /\ storage = self.storage
    /\ nextId = self.nextId
    /\ steps = 0
    /\ last = [op |-> "constructor", stored |-> session.stored.kind,
               exc |-> self.exc, alerts |-> self.alerts]

Init == \E session \in Sessions : Constructed(session)

\* the types of block added in Spec
SpecTypes == {"paragraph"}

AddBlock ==
    /\ \E type \in SpecTypes :
          Commit(addBlock(This, type), [op |-> "addBlock", type |-> type])

DeleteBlock ==
    \E id \in BlockIds \cup {StaleBlockId} :
        Commit(deleteBlock(This, id), [op |-> "deleteBlock", id |-> id])

\* index and n: where the item stood in the sequence it moves in, and the
\* length of that sequence, before the call
BlockPlace(id) ==
    LET i == BlockIndex(This, id)
        b == At(blocks, i)
        seq == IF i < 0 THEN <<>>
               ELSE IF HasGroup(b)
                    THEN [k \in DOMAIN SortedGroupBlocks(blocks, GroupIdOf(b)) |->
                            SortedGroupBlocks(blocks, GroupIdOf(b))[k].id]
                    ELSE [k \in DOMAIN getAllOrderedItems(This) |->
                            getAllOrderedItems(This)[k].item.id]
    IN  [index |-> FindIndex(seq, LAMBDA x : x = id), n |-> Len(seq),
         grouped |-> i >= 0 /\ HasGroup(b)]

GroupPlace(id) ==
    [index |-> ItemIndex(getAllOrderedItems(This), "group", id),
     n |-> Len(getAllOrderedItems(This)), grouped |-> FALSE]

\* number of blocks whose groupId is id
Members(id) == Len(Filter(blocks, LAMBDA b : GroupIdOf(b) = id))

MoveBlockUp ==
    \E id \in BlockIds \cup {StaleBlockId} :
        Commit(moveBlockUp(This, id),
               [op |-> "moveBlockUp", id |-> id] @@ BlockPlace(id))

MoveBlockDown ==
    \E id \in BlockIds \cup {StaleBlockId} :
        Commit(moveBlockDown(This, id),
               [op |-> "moveBlockDown", id |-> id] @@ BlockPlace(id))

MoveGroupUp ==
    \E id \in GroupIds \cup {StaleGroupId} :
        Commit(moveGroupUp(This, id),
               [op |-> "moveGroupUp", id |-> id] @@ GroupPlace(id))

MoveGroupDown ==
    \E id \in GroupIds \cup {StaleGroupId} :
        Commit(moveGroupDown(This, id),
               [op |-> "moveGroupDown", id |-> id] @@ GroupPlace(id))

GroupSelectedBlocks ==
    /\ Commit(groupSelectedBlocks(This),
              [op |-> "groupSelectedBlocks", n |-> Len(SelectedUngrouped(blocks))])

UngroupBlocks ==
    \E id \in GroupIds \cup {StaleGroupId} :
        Commit(ungroupBlocks(This, id),
               [op |-> "ungroupBlocks", id |-> id, n |-> Members(id)])

DeleteGroup ==
    \E id \in GroupIds \cup {StaleGroupId} :
        Commit(deleteGroup(This, id),
               [op |-> "deleteGroup", id |-> id, n |-> Members(id)])

HandleBlockSelection ==
    \E id \in BlockIds :
        LET checked == ~IsSelected(At(blocks, BlockIndex(This, id))) IN
        Commit(handleBlockSelection(This, id, checked),
               [op |-> "handleBlockSelection", id |-> id])

\* the blocks rendered by renderBlock, whose elements carry the drag events
TopLevelBlockIds == {blocks[i].id : i \in {j \in DOMAIN blocks : ~HasGroup(blocks[j])}}

\* the groups rendered by renderGroup
RenderedGroupIds ==
    {w.item.id : w \in {x \in Range(getAllOrderedItems(This)) : x.type = "group"}}

HandleDrop ==
    \E dragged \in TopLevelBlockIds, target \in TopLevelBlockIds :
        /\ dragged # target
        /\ Commit(handleDrop(This, dragged, target),
                  [op |-> "handleDrop", id |-> dragged, target |-> target])

HandleGroupDrop ==
    \E dragged \in RenderedGroupIds, target \in RenderedGroupIds :
        /\ dragged # target
        /\ Commit(handleGroupDrop(This, dragged, target),
                  [op |-> "handleGroupDrop", id |-> dragged, target |-> target])

\* the files uploaded in Spec
SpecUploads == {"# Title\n\nfirst\n\n- a\n- b", "first\n\nsecond"}

ImportMarkdown ==
    \E markdown \in SpecUploads :
        /\ Commit(importMarkdown(This, markdown),
                  [op |-> "importMarkdown", markdown |-> markdown])

Next ==
    \/ AddBlock
    \/ DeleteBlock
    \/ MoveBlockUp
    \/ MoveBlockDown
    \/ MoveGroupUp
    \/ MoveGroupDown
    \/ GroupSelectedBlocks
    \/ UngroupBlocks
    \/ DeleteGroup
    \/ HandleBlockSelection

Spec == Init /\ [][Next]_vars

\* the ordering operations with drag and drop and the import of a file
NextFull ==
    \/ Next
    \/ HandleDrop
    \/ HandleGroupDrop
    \/ ImportMarkdown

SpecFull == Init /\ [][NextFull]_vars

-----------------------------------------------------------------------------
(* The table mutators *)

\* rows and cols: the size of the table of block id before the call, 0 when
\* the block is no table
TableSize(id) ==
    IF IsTable(This, id)
    THEN [rows |-> Len(TableOf(This, id).rows), cols |-> Len(TableOf(This, id).headers)]
    ELSE [rows |-> 0, cols |-> 0]

\* the indices a delete is called with: those of the table, and some outside
DeleteIndexes(size) == (-2)..(size + 1)

AddTableRow ==
    \E id \in BlockIds \cup {StaleBlockId} :
        Commit(addTableRow(This, id), [op |-> "addTableRow", id |-> id] @@ TableSize(id))

AddTableColumn ==
    \E id \in BlockIds \cup {StaleBlockId} :
        Commit(addTableColumn(This, id),
               [op |-> "addTableColumn", id |-> id] @@ TableSize(id))

DeleteTableRow ==
    \E id \in BlockIds \cup {StaleBlockId} :
        \E rowIndex \in DeleteIndexes(TableSize(id).rows) :
            Commit(deleteTableRow(This, id, rowIndex),
                   [op |-> "deleteTableRow", id |-> id, index |-> rowIndex]
                       @@ TableSize(id))

DeleteTableColumn ==
    \E id \in BlockIds \cup {StaleBlockId} :
        \E colIndex \in DeleteIndexes(TableSize(id).cols) :
            Commit(deleteTableColumn(This, id, colIndex),
                   [op |-> "deleteTableColumn", id |-> id, index |-> colIndex]
                       @@ TableSize(id))

NextTable ==
    \/ AddTableRow
    \/ AddTableColumn
    \/ DeleteTableRow
    \/ DeleteTableColumn

SpecTable == Init /\ [][NextTable]_vars

-----------------------------------------------------------------------------
(* The codec round trip: a document of text blocks, without variables and  *)
(* groups, is exported and the export is imported                          *)

\* The editor of an earlier session that deleted its blocks and variables
EmptiedSession ==
    LET boot == Construct([kind |-> "absent"], 0)
        noBlocks == deleteBlock(deleteBlock(deleteBlock(boot,
                        "block_5"), "block_6"), "block_7")
    IN  deleteVariable(deleteVariable(deleteVariable(deleteVariable(deleteVariable(
            noBlocks, "var_0"), "var_1"), "var_2"), "var_3"), "var_4")

InitCodec ==
    Constructed([stored |-> EmptiedSession.storage, nextId |-> EmptiedSession.nextId])

TextTypes == {"heading", "paragraph", "list", "code"}

AddTextBlock ==
    /\ \E type \in TextTypes :
          Commit(addBlock(This, type), [op |-> "addBlock", type |-> type])

\* what is typed into the textarea of a block in SpecCodec
CodecInputs == {"# Title", "one line", "- item"}

HandleBlockInput ==
    \E id \in BlockIds, value \in CodecInputs :
        Commit(handleBlockInput(This, id, value),
               [op |-> "handleBlockInput", id |-> id])

\* downloadMarkdown() and then uploadFile() with the file downloaded
ImportGenerated ==
    \E markdown \in {generateMarkdown(This)} :
        Commit(importMarkdown(This, markdown),
               [op |-> "importGenerated", before |-> blocks])

NextCodec ==
    \/ AddTextBlock
    \/ HandleBlockInput
    \/ ImportGenerated

SpecCodec == InitCodec /\ [][NextCodec]_vars

-----------------------------------------------------------------------------
(* Construction from what localStorage holds *)

\* a snapshot of an older version: blocks without order and selected, a
\* group without order
OlderSnapshot ==
    [blocks |-> <<[id |-> "block_a", type |-> "paragraph",
                   content |-> [text |-> "old"], groupId |-> "group_0"],
                  [id |-> "block_b", type |-> "heading",
                   content |-> [text |-> "# Old"], groupId |-> Null]>>,
     variables |-> << <<"var_a", [key |-> "k", value |-> "v"]>> >>,
     groups |-> << <<"group_0", [id |-> "group_0", name |-> "Group 1"]>> >>,
     groupCounter |-> 1]

StoredItems ==
    {[kind |-> "absent"],
     [kind |-> "invalid"],
     [kind |-> "null"],
     [kind |-> "badmap", value |-> EarlierSession.storage.value],
     [kind |-> "json", value |-> OlderSnapshot],
     EarlierSession.storage}

InitLoad ==
    \E stored \in StoredItems :
        Constructed([stored |-> stored, nextId |-> EarlierSession.nextId])

\* the page is loaded again: new StructuredMarkdownEditor()
Reload ==
    /\ steps < MaxSteps
    /\ steps' = steps + 1
    /\ LET self == Construct(storage, nextId) IN
       /\ blocks' = self.blocks
       /\ variables' = self.variables
       /\ groups' = self.groups
       /\ groupCounter' = self.groupCounter
       /\ storage' = self.storage
       /\ nextId' = self.nextId
       /\ last' = [op |-> "constructor", stored |-> storage.kind,
                   exc |-> self.exc, alerts |-> self.alerts]

NextLoad ==
    \/ AddBlock
    \/ DeleteBlock
    \/ HandleBlockSelection
    \/ UngroupBlocks
    \/ Reload

SpecLoad == InitLoad /\ [][NextLoad]_vars

-----------------------------------------------------------------------------
(* The variable table: the variables that an earlier session left, edited  *)
(* in the variables panel, and the substitution of texts under them        *)

\* the most variables the earlier session stored
MaxStored == 1

\* The editor of an earlier session that replaced the variables of the
\* sample document by those of table
SessionWith(table) ==
    LET boot == Construct([kind |-> "absent"], 0)
        noVariables == deleteVariable(deleteVariable(deleteVariable(deleteVariable(
                           deleteVariable(boot, "var_0"), "var_1"), "var_2"), "var_3"), "var_4")
        RECURSIVE Added(_)
        Added(n) == IF n = 0 THEN noVariables
                    ELSE With(Added(n - 1), LAMBDA self :
                             addVariable(self, table[n].key, table[n].value))
    IN  Added(Len(table))

\* the variables that the earlier session stored have the key k or n and a
\* number or an expression as value
InitVars ==
    \/ Constructed([stored |-> [kind |-> "absent"], nextId |-> 0])
    \/ \E len \in 0..MaxStored :
          \E table \in [1..len -> [key : {"k", "n"}, value : {"1", "{{k}}+1"}]] :
              \E session \in {SessionWith(table)} :
                  Constructed([stored |-> session.storage, nextId |-> session.nextId])

\* the button add-variable-btn: addVariable()
AddVariable ==
    /\ Commit(addVariable(This, "", ""), [op |-> "addVariable"])

\* the input of a key or value field of the variables panel: what is typed
\* is a key (k, or an opening parenthesis) or a value
HandleVariableInput ==
    /\ \E i \in DOMAIN variables, field \in {"key", "value"} :
          \E value \in IF field = "key" THEN {"k", "("} ELSE {"2", "{{n}}*2"} :
              Commit(handleVariableInput(This, variables[i].id, field, value),
                     [op |-> "handleVariableInput", id |-> variables[i].id,
                      field |-> field, value |-> value])

DeleteVariable ==
    /\ \E i \in DOMAIN variables :
          Commit(deleteVariable(This, variables[i].id),
                 [op |-> "deleteVariable", id |-> variables[i].id])

\* substituteVariables(text), as generateMarkdown calls it for the text of
\* a block
SubstituteVariables ==
    /\ \E text \in {"{{k}}", "{{n}} of {{k}}", "Total: {{total}}"} :
          IF substituteVariablesRaises(This)
          THEN Commit(Throw(This, "SyntaxError"),
                      [op |-> "substituteVariables", text |-> text])
          ELSE Commit(This, [op |-> "substituteVariables", text |-> text,
                             result |-> substituteVariables(This, text)])

NextVars ==
    \/ AddVariable
    \/ HandleVariableInput
    \/ DeleteVariable
    \/ SubstituteVariables

SpecVars == InitVars /\ [][NextVars]_vars

-----------------------------------------------------------------------------
(* The rendering of tables: a document whose only block is a table that an *)
(* earlier session filled in                                                *)

MaxRows == 2         \* rows of the table the earlier session left

\* The earlier session made one table block its whole document and typed
\* the headers and the rows into its cells
InitRender ==
    \E headers \in {<<"A">>, <<"A", "B">>, <<"B", "B">>}, len \in 0..MaxRows :
        \E rows \in [1..len -> [DOMAIN headers -> {"1", "2"}]] :
            \E session \in {With(addBlock(EmptiedSession, "table"), LAMBDA self :
                                saveToStorage(ChangeTable(self, self.blocks[1].id,
                                    LAMBDA t : [headers |-> headers, rows |-> rows])))} :
                Constructed([stored |-> session.storage, nextId |-> session.nextId])

\* generateTableMarkdown(block.content), as generateMarkdown calls it for a
\* table block
GenerateTableMarkdown ==
    /\ \E i \in DOMAIN blocks :
          /\ blocks[i].type = "table"
          /\ Commit(This, [op |-> "generateTableMarkdown",
                           tableData |-> blocks[i].content,
                           result |-> generateTableMarkdown(blocks[i].content)])

NextRender ==
    \/ AddTableRow
    \/ AddTableColumn
    \/ GenerateTableMarkdown

SpecRender == InitRender /\ [][NextRender]_vars

-----------------------------------------------------------------------------
(* The import of an uploaded file: the file is read as text and handed to  *)
(* importMarkdown (uploadFile, lines 869-884).  The text is all that        *)
(* importMarkdown reads, so one upload is followed in a session.            *)

MaxLines == 4        \* lines of an uploaded text

\* the texts of 1..n lines, a line being a heading, a plain line, an empty
\* line, a line of spaces, a list item or a code fence
UploadTexts(n) ==
    LET lines == {"# T", "p", "", "  ", "- a", Fence}
        RECURSIVE Texts(_)
        Texts(k) ==
            IF k = 1 THEN lines
            ELSE With(Texts(k - 1), LAMBDA shorter :
                     shorter \cup {text \o "\n" \o line : text \in shorter, line \in lines})
    IN  Texts(n)

UploadFile ==
    /\ last.op = "constructor"
    /\ \E markdown \in UploadTexts(MaxLines) :
           Commit(importMarkdown(This, markdown),
                  [op |-> "importMarkdown", markdown |-> markdown])

NextImport ==
    \/ UploadFile

SpecImport == Init /\ [][NextImport]_vars

-----------------------------------------------------------------------------
(* Properties *)

\* C1: in every state reachable by addBlock, deleteBlock, the moves,
\* groupSelectedBlocks, ungroupBlocks and deleteGroup, the top-level
\* sequence getAllOrderedItems returns holds no id twice and no group that
\* has no member block.
TopLevelSequenceWellFormed ==
    LET items == getAllOrderedItems(This) IN
    /\ \A i, j \in DOMAIN items : items[i].item.id = items[j].item.id => i = j
    /\ \A i \in DOMAIN items :
          items[i].type = "group" =>
              \E k \in DOMAIN blocks : GroupIdOf(blocks[k]) = items[i].item.id

\* a group is still in the group table after its last member was deleted
EmptyGroupInTable ==
    /\ last.op = "deleteBlock"
    /\ \E g \in DOMAIN groups :
          \A k \in DOMAIN blocks : GroupIdOf(blocks[k]) # groups[g].id

\* C2: moving the first item of the top-level sequence up and moving its
\* last item down changes nothing: every block and group (order, groupId,
\* content) and the top-level sequence are as before, and no exception is
\* raised.
BoundaryMoveChangesNothing ==
    [][(\/ /\ last'.op \in {"moveBlockUp", "moveGroupUp"}
           /\ ~last'.grouped
           /\ last'.index = 0
        \/ /\ last'.op \in {"moveBlockDown", "moveGroupDown"}
           /\ ~last'.grouped
           /\ last'.index = last'.n - 1)
       => /\ blocks' = blocks
          /\ groups' = groups
          /\ AllOrderedItems(blocks', groups') = AllOrderedItems(blocks, groups)
          /\ last'.exc = Null]_vars

\* the first of several top-level items was moved up
FirstItemMovedUp ==
    /\ last.op \in {"moveBlockUp", "moveGroupUp"}
    /\ ~last.grouped
    /\ last.index = 0
    /\ last.n >= 2

\* C3: groupSelectedBlocks called when fewer than 2 blocks are selected and
\* ungrouped raises the notice and changes nothing: blocks, groups,
\* groupCounter, variables and what is stored are as before.
InsufficientSelectionChangesNothing ==
    [][(last'.op = "groupSelectedBlocks" /\ last'.n < 2)
       => /\ last'.alerts = <<Notice>>
          /\ last'.exc = Null
          /\ blocks' = blocks
          /\ groups' = groups
          /\ groupCounter' = groupCounter
          /\ variables' = variables
          /\ storage' = storage]_vars

\* groupSelectedBlocks was called with exactly one block selected
GroupingOfOneRefused ==
    /\ last.op = "groupSelectedBlocks"
    /\ last.n = 1
    /\ last.alerts = <<Notice>>

\* C4: for every table block, after any sequence of addTableRow,
\* addTableColumn, deleteTableRow(index) and deleteTableColumn(index), with
\* any index, every row is as long as headers, there is at least one row and
\* at least one column; a delete called when one row (one column) is left
\* leaves the blocks unchanged.
TableStaysRectangular ==
    [][LET Rectangular(bs) ==
               \A i \in DOMAIN bs :
                   bs[i].type = "table" =>
                       /\ Len(bs[i].content.headers) >= 1
                       /\ Len(bs[i].content.rows) >= 1
                       /\ \A r \in DOMAIN bs[i].content.rows :
                             Len(bs[i].content.rows[r]) = Len(bs[i].content.headers)
       IN  /\ Rectangular(blocks)
           /\ Rectangular(blocks')
           /\ (last'.op = "deleteTableRow" /\ last'.rows = 1) => blocks' = blocks
           /\ (last'.op = "deleteTableColumn" /\ last'.cols = 1) => blocks' = blocks]_vars

\* deleteTableColumn was called on a table of one column
LastColumnDeleteAttempted ==
    /\ last.op = "deleteTableColumn"
    /\ last.cols = 1
    /\ last.index = 0

\* C5: for a document of heading, paragraph, list and code blocks only,
\* without groups and variables, importMarkdown(generateMarkdown()) yields
\* as many blocks, of the same types in the same order and with the same
\* text up to blank lines.
RoundTripReproducesBlocks ==
    LET TextLines(text) == Filter(SplitLines(text), LAMBDA line : Trim(line) # "")
    IN  last.op = "importGenerated" =>
            /\ Len(blocks) = Len(last.before)
            /\ \A i \in DOMAIN blocks :
                  /\ blocks[i].type = last.before[i].type
                  /\ TextLines(blocks[i].content.text)
                        = TextLines(last.before[i].content.text)

\* C6: an operation given an id that no block and no group has (moveBlockUp,
\* moveBlockDown, moveGroupUp, moveGroupDown, deleteBlock, ungroupBlocks,
\* deleteGroup) ends without an exception and without a notice, and leaves
\* blocks, groups, variables and groupCounter unchanged.
StaleIdChangesNothing ==
    [][(Has(last', "id") /\ last'.id \in {StaleBlockId, StaleGroupId})
       => /\ last'.exc = Null
          /\ last'.alerts = <<>>
          /\ doc' = doc]_vars

\* C7: deleteGroup(g) removes the group and every block whose groupId is g,
\* the other blocks untouched, so that the number of blocks falls by the
\* number of members; ungroupBlocks(g) removes the group and keeps every
\* block, the members with groupId null, so that they are top-level items.
GroupRemovalKeepsOrDropsMembers ==
    [][/\ last'.op = "deleteGroup" =>
            /\ groups' = Filter(groups, LAMBDA group : group.id # last'.id)
            /\ blocks' = Filter(blocks, LAMBDA b : GroupIdOf(b) # last'.id)
            /\ Len(blocks') = Len(blocks) - last'.n
       /\ last'.op = "ungroupBlocks" =>
            /\ groups' = Filter(groups, LAMBDA group : group.id # last'.id)
            /\ Len(blocks') = Len(blocks)
            /\ \A i \in DOMAIN blocks :
                  IF GroupIdOf(blocks[i]) = last'.id
                  THEN /\ blocks'[i] = [blocks[i] EXCEPT !.groupId = Null]
                       /\ \E item \in Range(AllOrderedItems(blocks', groups')) :
                             item.type = "block" /\ item.item.id = blocks[i].id
                  ELSE blocks'[i] = blocks[i]]_vars

\* a group of two or more blocks was deleted
GroupWithMembersDeleted ==
    /\ last.op = "deleteGroup"
    /\ last.n >= 2

\* C8: when what is stored cannot be loaded (a corrupt record), the editor
\* constructed holds the bootstrap document: exactly the five seeded
\* variables product_name, release_date, price, tax, total and the three
\* seeded blocks heading, paragraph, table, and nothing partially loaded.
CorruptRecordFallsBackToBootstrap ==
    (last.op = "constructor" /\ last.stored \in {"invalid", "null", "badmap"})
    => /\ [i \in DOMAIN variables |-> variables[i].key]
             = <<"product_name", "release_date", "price", "tax", "total">>
       /\ [i \in DOMAIN blocks |-> blocks[i].type]
             = <<"heading", "paragraph", "table">>
       /\ groups = <<>>

\* C9: groupCounter never decreases: a successful groupSelectedBlocks raises
\* it by exactly 1, every other operation (add, delete, move, ungroup,
\* deleteGroup, drop, import, a refused grouping) leaves it unchanged, and
\* the id minted from it is the id of no group there was.
GroupCounterOnlyGrows ==
    [][/\ groupCounter' >= groupCounter
       /\ IF last'.op = "groupSelectedBlocks" /\ last'.n >= 2
          THEN /\ groupCounter' = groupCounter + 1
               /\ ~MapHas(groups, GroupId(groupCounter))
               /\ MapHas(groups', GroupId(groupCounter))
               /\ \A k \in 0..(groupCounter - 1) :
                     MapHas(groups', GroupId(k)) => MapHas(groups, GroupId(k))
          ELSE groupCounter' = groupCounter]_vars

\* blocks were grouped after an earlier group had been removed
GroupedAfterRemoval ==
    /\ last.op = "groupSelectedBlocks"
    /\ last.n >= 2
    /\ groupCounter > Len(groups)

\* C10: generateMarkdown emits the blocks in the order of the top-level
\* sequence: a standalone block at its place, the members of a group
\* together at the place of the group in ascending group-scoped order; each
\* block is emitted once, followed by a blank line, and the name of a group
\* is no part of the output.
MarkdownFollowsTopLevelSequence ==
    LET items == getAllOrderedItems(This)
        emitted == EmittedBlocks(This)
        Place(b) == CHOOSE k \in DOMAIN items :
                        IF HasGroup(b)
                        THEN items[k].type = "group" /\ items[k].item.id = GroupIdOf(b)
                        ELSE items[k].type = "block" /\ items[k].item.id = b.id
        Content(b) == IF b.type = "table" THEN generateTableMarkdown(b.content)
                      ELSE b.content.text
        markdown == generateMarkdown(This)
    IN  /\ Len(emitted) = Len(blocks)
        /\ \A i \in DOMAIN blocks : \E k \in DOMAIN emitted : emitted[k] = blocks[i]
        /\ \A i, j \in DOMAIN emitted :
              i < j =>
                  \/ Place(emitted[i]) < Place(emitted[j])
                  \/ /\ Place(emitted[i]) = Place(emitted[j])
                     /\ OrderOf(emitted[i]) <= OrderOf(emitted[j])
        /\ markdown = Trim(Concat(emitted, LAMBDA b :
                                      substituteVariables(This, Content(b)) \o "\n\n"))
        /\ \A g \in DOMAIN groups : ~Includes(markdown, groups[g].name)

\* the members of a group stand in the block list in another order than
\* their group-scoped order
GroupOrderDiffersFromListOrder ==
    /\ last.op \in {"moveBlockUp", "moveBlockDown"}
    /\ last.grouped
    /\ \E i, j \in DOMAIN blocks :
          /\ i < j
          /\ HasGroup(blocks[i])
          /\ GroupIdOf(blocks[i]) = GroupIdOf(blocks[j])
          /\ OrderOf(blocks[i]) > OrderOf(blocks[j])

\* C11: when two variables of the table have the same non-empty key,
\* substituteVariables of a text with {{key}} puts the value of the later of
\* them, not of the earlier, in the place of {{key}}.  Stated for the text
\* {{k}} and variables with plain values.
LaterDuplicateKeyWins ==
    LET named == Filter(variables, LAMBDA v : v.key = "k")
    IN  /\ last.op = "substituteVariables"
        /\ last.exc = Null
        /\ last.text = "{{k}}"
        /\ Len(named) >= 2
        /\ \A i \in DOMAIN named : ~Includes(named[i].value, "{{")
        => last.result = named[Len(named)].value

\* C12: a variable whose value is an arithmetic expression over placeholders
\* of variables with plain values is substituted by the result of the
\* expression.  With price = 1000, tax = 0.2 and total = {{price}}*{{tax}}
\* the text "Total: {{total}}" becomes "Total: 200"; {{k}}+1 is 2 when the
\* first plain k is 1 and 3 when it is 2; and evaluateExpression leaves in its result every
\* placeholder whose key no variable with a plain value (a value without
\* "{{") has, so that the result is not evaluated.
ExpressionsEvaluatedOverPlainValues ==
    LET Holds(key, value) ==
            \E i \in DOMAIN variables :
                /\ variables[i].key = key
                /\ variables[i].value = value
                /\ \A j \in DOMAIN variables : variables[j].key = key => j = i
        PlainOf(key) ==
            Filter(variables, LAMBDA v : v.key = key /\ ~Includes(v.value, "{{"))
        IsExpression(v) ==
            v.key # "" /\ Includes(v.value, "{{") /\ Includes(v.value, "}}")
    IN  /\ /\ last.op = "substituteVariables"
           /\ last.exc = Null
           /\ last.text = "Total: {{total}}"
           /\ Holds("price", "1000")
           /\ Holds("tax", "0.2")
           /\ Holds("total", "{{price}}*{{tax}}")
           => last.result = "Total: 200"
        /\ ~substituteVariablesRaises(This) =>
             \A i \in DOMAIN variables :
                 IsExpression(variables[i]) =>
                     LET value == variables[i].value
                         result == evaluateExpression(This, value)
                     IN  /\ \A key \in {"k", "n", "price", "tax", "total"} :
                                Includes(value, Placeholder(key)) /\ Len(PlainOf(key)) = 0
                                => Includes(result, Placeholder(key))
                         /\ value = "{{k}}+1" /\ Len(PlainOf("k")) > 0
                            => /\ PlainOf("k")[1].value = "1" => result = "2"
                               /\ PlainOf("k")[1].value = "2" => result = "3"

\* C12 witness: the sample variables price, tax and total are in the table
\* and "Total: {{total}}" was substituted to "Total: 200"
SampleTotalSubstituted ==
    /\ last.op = "substituteVariables"
    /\ last.exc = Null
    /\ last.text = "Total: {{total}}"
    /\ last.result = "Total: 200"
    /\ \E i \in DOMAIN variables : variables[i].value = "{{price}}*{{tax}}"

\* C13: substituteVariables never raises to its caller, whatever the variable
\* table and the text are: every call of it returns a text.
SubstitutionNeverRaises ==
    last.op = "substituteVariables" => last.exc = Null /\ Has(last, "result")

\* C14: generateTableMarkdown renders a table with the headers h1..hn and m
\* rows as the line "| h1 | ... | hn |", a separator line with " --- |" for
\* each column and one line "| c1 | ... | cn |" for each row, each line
\* ended by a newline, so there are 2 + m lines; for the headers A, B and the
\* one row 1, 2 the result is "| A | B |\n| --- | --- |\n| 1 | 2 |\n".
TableRenderedLineByLine ==
    last.op = "generateTableMarkdown" =>
        LET t == last.tableData
            lines == SplitLines(last.result)
            RECURSIVE Joined(_, _)
            Joined(cells, n) ==
                IF n = 1 THEN cells[1] ELSE Joined(cells, n - 1) \o " | " \o cells[n]
            Line(cells) == "| " \o Joined(cells, Len(cells)) \o " |"
        IN  /\ Len(lines) = 2 + Len(t.rows) + 1
            /\ lines[Len(lines)] = ""
            /\ lines[1] = Line(t.headers)
            /\ lines[2] = Line([c \in DOMAIN t.headers |-> "---"])
            /\ \A r \in DOMAIN t.rows : lines[2 + r] = Line(t.rows[r])
            /\ t = [headers |-> <<"A", "B">>, rows |-> << <<"1", "2">> >>]
               => last.result = "| A | B |\n| --- | --- |\n| 1 | 2 |\n"

\* C14 witness: the table with the headers A, B and the one row 1, 2 was
\* rendered
SampleTableRendered ==
    /\ last.op = "generateTableMarkdown"
    /\ last.tableData = [headers |-> <<"A", "B">>, rows |-> << <<"1", "2">> >>]
    /\ last.result = "| A | B |\n| --- | --- |\n| 1 | 2 |\n"

\* C15: moveUp and moveDown on an item that is not at the boundary of its
\* sequence (the top-level sequence for an ungrouped block or a group, the
\* members of its group for a grouped block) exchange the order values of
\* the item and of its neighbour and change nothing else: the order of no
\* other block or group, no id, type, content, groupId, selected flag or
\* group name, no variable and not groupCounter; every order value occurs
\* as often as before.
MoveExchangesOrderValuesOnly ==
    [][LET up == last'.op \in {"moveBlockUp", "moveGroupUp"}
           top == [k \in DOMAIN AllOrderedItems(blocks, groups) |->
                      AllOrderedItems(blocks, groups)[k].item]
           members == IF BlockIndex(This, last'.id) < 0 THEN <<>>
                      ELSE SortedGroupBlocks(blocks,
                               GroupIdOf(At(blocks, BlockIndex(This, last'.id))))
           seq == IF last'.grouped THEN members ELSE top
           item == At(seq, last'.index)
           other == At(seq, IF up THEN last'.index - 1 ELSE last'.index + 1)
           Rest(x) == [k \in (DOMAIN x) \ {"order"} |-> x[k]]
           Moved(old, new) ==
               /\ Len(new) = Len(old)
               /\ \A i \in DOMAIN old :
                     /\ Rest(new[i]) = Rest(old[i])
                     /\ OrderOf(new[i]) =
                           IF old[i].id = item.id THEN OrderOf(other)
                           ELSE IF old[i].id = other.id THEN OrderOf(item)
                           ELSE OrderOf(old[i])
           Count(bs, gs, v) ==
               Cardinality({i \in DOMAIN bs : OrderOf(bs[i]) = v})
                   + Cardinality({i \in DOMAIN gs : OrderOf(gs[i]) = v})
       IN  /\ last'.op \in {"moveBlockUp", "moveBlockDown", "moveGroupUp", "moveGroupDown"}
           /\ IF up THEN last'.index > 0
                    ELSE last'.index >= 0 /\ last'.index < last'.n - 1
           => /\ last'.exc = Null
              /\ Moved(blocks, blocks')
              /\ Moved(groups, groups')
              /\ variables' = variables
              /\ groupCounter' = groupCounter
              /\ \A v \in {OrderOf(x) : x \in Range(blocks) \cup Range(groups)
                                             \cup Range(blocks') \cup Range(groups')} :
                     Count(blocks', groups', v) = Count(blocks, groups, v)]_vars

\* C15 witness: a top-level item with a successor was moved down, and the
\* two had different order values
InnerItemMovedDown ==
    /\ last.op \in {"moveBlockDown", "moveGroupDown"}
    /\ ~last.grouped
    /\ last.index >= 0
    /\ last.index < last.n - 1
    /\ last.exc = Null
    /\ ItemIndex(getAllOrderedItems(This),
                 IF last.op = "moveBlockDown" THEN "block" ELSE "group", last.id)
          = last.index + 1

\* C16: in every reachable state moveUp on a top-level item that is not the
\* first one moves it exactly one position earlier in the top-level
\* sequence: it changes places with its predecessor and every other item
\* keeps its position; moveDown on an item that is not the last one moves it
\* one position later in the same way.
MoveShiftsByOnePosition ==
    [][LET up == last'.op \in {"moveBlockUp", "moveGroupUp"}
           Ids(seq) == [k \in DOMAIN seq |-> seq[k].item.id]
           before == Ids(AllOrderedItems(blocks, groups))
           after == Ids(AllOrderedItems(blocks', groups'))
           from == last'.index + 1
           to == IF up THEN from - 1 ELSE from + 1
       IN  /\ last'.op \in {"moveBlockUp", "moveBlockDown", "moveGroupUp", "moveGroupDown"}
           /\ ~last'.grouped
           /\ IF up THEN last'.index > 0
                    ELSE last'.index >= 0 /\ last'.index < last'.n - 1
           => after = [k \in DOMAIN before |->
                          IF k = from THEN before[to]
                          ELSE IF k = to THEN before[from]
                          ELSE before[k]]]_vars

\* C17: after importMarkdown the document consists of the blocks the import
\* produced, all of them ungrouped and with the order values 0, 1, ..., k-1 in
\* the order in which they were produced.  (A groupId or an order that is
\* undefined is read as null and as 0, as the code reads them.)
ImportedBlocksOrderedSequentially ==
    last.op = "importMarkdown" /\ last.exc = Null =>
        \A i \in DOMAIN blocks :
            /\ ~HasGroup(blocks[i])
            /\ OrderOf(blocks[i]) = i - 1

\* C18: in every state reached from the sample document by addBlock,
\* deleteBlock, groupSelectedBlocks, ungroupBlocks, deleteGroup, the moves,
\* the drops and importMarkdown, the groupId of every block is null (or
\* undefined, as that of an imported block) or the id of a group of the
\* group table; hence generateMarkdown emits every block of the block list
\* exactly once.
NoDanglingGroupReference ==
    /\ \A i \in DOMAIN blocks :
          HasGroup(blocks[i]) => MapHas(groups, GroupIdOf(blocks[i]))
    /\ \E emitted \in {EmittedBlocks(This)} :
          \A i \in DOMAIN blocks :
              Cardinality({k \in DOMAIN emitted : emitted[k].id = blocks[i].id}) = 1

\* C18 witness: a group with members was ungrouped and is gone from the
\* group table
MembersReleasedFromGroup ==
    /\ last.op = "ungroupBlocks"
    /\ last.n >= 2
    /\ ~MapHas(groups, last.id)
    /\ Len(blocks) >= last.n

\* C19: after a successful groupSelectedBlocks the order of the new group is
\* the least order of the selected blocks, and the group is in the
\* top-level sequence where the first selected block was: every unselected
\* item that preceded that block precedes the group, and every unselected
\* item that followed it follows the group.
GroupTakesPlaceOfFirstSelected ==
    [][LET Key(w) == <<w.type, w.item.id>>
           before == AllOrderedItems(blocks, groups)
           after == AllOrderedItems(blocks', groups')
           Chosen(w) == w.type = "block" /\ IsSelected(w.item)
           first == CHOOSE k \in DOMAIN before :
                        /\ Chosen(before[k])
                        /\ \A j \in 1..(k - 1) : ~Chosen(before[j])
           group == groups'[Len(groups')]
           place == CHOOSE k \in DOMAIN after : Key(after[k]) = <<"group", group.id>>
           Place(w) == CHOOSE k \in DOMAIN after : Key(after[k]) = Key(w)
       IN  last'.op = "groupSelectedBlocks" /\ last'.n >= 2
           => /\ Len(groups') = Len(groups) + 1
              /\ group.order = MinOf(SelectedUngrouped(blocks), OrderOf)
              /\ \A k \in DOMAIN before :
                     ~Chosen(before[k]) =>
                         IF k < first THEN Place(before[k]) < place
                                      ELSE Place(before[k]) > place]_vars

\* C20 as claimed: the top-level sequence is sorted in non-decreasing order
\* value, and two items with equal order appear in the order in which they
\* were created.  Stated for two blocks and for two groups, whose ids carry
\* the number they were created with.
TiesFollowCreationOrder ==
    LET seq == getAllOrderedItems(This)
        Stamp(w) == CHOOSE n \in 0..(nextId + groupCounter) :
                        w.item.id = (IF w.type = "block" THEN "block_" ELSE "group_")
                                        \o ToString(n)
    IN  \A j, k \in DOMAIN seq :
            j < k =>
                /\ seq[j].order <= seq[k].order
                /\ seq[j].order = seq[k].order /\ seq[j].type = seq[k].type
                   => Stamp(seq[j]) < Stamp(seq[k])

\* C20, amended: the top-level sequence is sorted in non-decreasing order
\* value, and of two items with equal order an ungrouped block comes before
\* a group, two blocks come in the order of the block list and two groups
\* in the order of the group table.
TiesFollowListOrder ==
    LET Pos(w) == IF w.type = "block"
                  THEN BlockIndex(This, w.item.id)
                  ELSE Len(blocks) + FindIndex(groups, LAMBDA g : g.id = w.item.id)
    IN  \E seq \in {getAllOrderedItems(This)} :
            \A j, k \in DOMAIN seq :
                j < k =>
                    /\ seq[j].order <= seq[k].order
                    /\ seq[j].order = seq[k].order => Pos(seq[j]) < Pos(seq[k])

\* C20 witness: after a drop two blocks with equal order are in the
\* top-level sequence, the one created later first
TiedBlocksRearrangedByDrop ==
    LET seq == getAllOrderedItems(This)
        Stamp(w) == CHOOSE n \in 0..nextId : w.item.id = "block_" \o ToString(n)
    IN  /\ last.op = "handleDrop"
        /\ \E j, k \in DOMAIN seq :
              /\ j < k
              /\ seq[j].type = "block" /\ seq[k].type = "block"
              /\ seq[j].order = seq[k].order
              /\ Stamp(seq[j]) > Stamp(seq[k])

\* C21: addBlock(type) creates a block with groupId null, selected false and
\* an order equal to the number of top-level items (ungrouped blocks and
\* non-empty groups) there are when it is created.
NewBlockOrderIsTopLevelCount ==
    [][last'.op = "addBlock" /\ last'.exc = Null
       => LET block == blocks'[Len(blocks')]
          IN  /\ Len(blocks') = Len(blocks) + 1
              /\ block.groupId = Null
              /\ block.selected = FALSE
              /\ block.order = Len(AllOrderedItems(blocks, groups))]_vars

\* C22: in every reachable state a block that addBlock has just created is
\* the last item of the top-level sequence, and so the last block that
\* generateMarkdown emits.
NewBlockIsLast ==
    last.op = "addBlock" /\ last.exc = Null =>
        \E seq \in {getAllOrderedItems(This)}, emitted \in {EmittedBlocks(This)} :
            /\ seq[Len(seq)].type = "block"
            /\ seq[Len(seq)].item.id = blocks[Len(blocks)].id
            /\ emitted[Len(emitted)].id = blocks[Len(blocks)].id

\* C23: a drop of a dragged top-level block on another top-level block
\* (handleDrop) places the dragged block immediately before the target in
\* the top-level sequence and leaves the relative order of all other items
\* as it was; handleGroupDrop does the same with a dragged group and a
\* target group.
DropPlacesBeforeTarget ==
    [][last'.op \in {"handleDrop", "handleGroupDrop"} /\ last'.exc = Null
       => LET Ids(seq) == [k \in DOMAIN seq |-> seq[k].item.id]
              before == Ids(AllOrderedItems(blocks, groups))
              after == Ids(AllOrderedItems(blocks', groups'))
              others == SelectSeq(before, LAMBDA id : id # last'.id)
              place == FindIndex(others, LAMBDA id : id = last'.target)
          IN  after = SubSeq(others, 1, place) \o <<last'.id>>
                          \o SubSeq(others, place + 1, Len(others))]_vars

\* C24: in every reachable state the blocks the editor shows
\* (renderAllContent, the members of a group as renderGroup lists them) are
\* the blocks generateMarkdown emits, in the same sequence.
RenderedAsEmitted ==
    \E shown \in {RenderedBlocks(This)}, emitted \in {EmittedBlocks(This)} :
        [k \in DOMAIN shown |-> shown[k].id] = [k \in DOMAIN emitted |-> emitted[k].id]

\* C25: in every reachable state saveToStorage followed by loadFromStorage
\* gives back the same blocks, groups, variables and groupCounter, hence the
\* same top-level sequence and the same Markdown.
SaveThenLoadIsIdentity ==
    \E loaded \in {loadFromStorage(NewEditor(saveToStorage(This).storage, nextId))} :
        /\ loaded.blocks = blocks
        /\ loaded.groups = groups
        /\ loaded.variables = variables
        /\ loaded.groupCounter = groupCounter
        /\ \E before \in {getAllOrderedItems(This)}, after \in {getAllOrderedItems(loaded)} :
               [k \in DOMAIN after |-> after[k].item.id]
                   = [k \in DOMAIN before |-> before[k].item.id]
        /\ generateMarkdown(loaded) = generateMarkdown(This)

\* C26: after a successful groupSelectedBlocks the members of the new group,
\* sorted by their order inside the group, follow each other as they did in
\* the top-level sequence just before the grouping.
GroupMembersKeepSequence ==
    [][last'.op = "groupSelectedBlocks" /\ last'.exc = Null /\ last'.n >= 2
       => LET before == AllOrderedItems(blocks, groups)
              chosen == SelectSeq(before,
                                  LAMBDA w : w.type = "block" /\ IsSelected(w.item))
              members == SortedGroupBlocks(blocks', GroupId(groupCounter))
          IN  [k \in DOMAIN members |-> members[k].id]
                  = [k \in DOMAIN chosen |-> chosen[k].item.id]]_vars

\* C27: a blank line of the imported text closes nothing.  The import gives
\* the blocks it gives for the text without its blank lines; a plain line
\* after a blank line continues the paragraph, list or code block that is
\* open there; and the block open at the end of the text is in the list once.
BlankLinesCloseNoBlock ==
    last.op = "importMarkdown" /\ last.exc = Null =>
        LET lines == SplitLines(last.markdown)
            IsBlank(line) == Trim(line) = ""
            IsPlain(line) == /\ ~IsBlank(line)
                             /\ ~StartsWith(line, "#")
                             /\ ~StartsWith(line, Fence)
                             /\ ~StartsWith(line, "- ")
                             /\ ~StartsWith(line, "* ")
            Text(ls) == IF Len(ls) = 0 THEN ""
                        ELSE ls[1] \o Concat(Tail(ls), LAMBDA line : "\n" \o line)
            Imported(ls) ==
                With(importMarkdown(This, Text(ls)).blocks, LAMBDA bs :
                     [k \in DOMAIN bs |-> <<bs[k].type, bs[k].content.text>>])
            kept == SelectSeq(lines, LAMBDA line : ~IsBlank(line))
            shown == [k \in DOMAIN blocks |-> <<blocks[k].type, blocks[k].content.text>>]
            \* a block that is still open when the text ends there
            IsOpen(b) == \/ b[1] \in {"paragraph", "list"}
                         \/ /\ b[1] = "code"
                            /\ \E ls \in {SplitLines(b[2])} :
                                  Len(ls) = 1 \/ ~StartsWith(ls[Len(ls)], Fence)
        IN  /\ shown = Imported(kept)
            /\ \A k \in 2..Len(lines) :
                   IsPlain(lines[k]) /\ IsBlank(lines[k - 1]) =>
                       \E before \in {Imported(SubSeq(lines, 1, k - 1))},
                          after \in {Imported(SubSeq(lines, 1, k))} :
                           Len(before) > 0 /\ IsOpen(before[Len(before)]) =>
                               /\ Len(after) = Len(before)
                               /\ after[Len(after)] =
                                      <<before[Len(before)][1],
                                        before[Len(before)][2] \o "\n" \o lines[k]>>
            /\ Len(kept) > 0 =>
                   /\ Len(blocks) > 0
                   /\ \E ls \in {SplitLines(blocks[Len(blocks)].content.text)} :
                          ls[Len(ls)] = kept[Len(kept)]
                   /\ Len(Concat(shown, LAMBDA b : b[2] \o "\n"))
                          = Len(Concat(kept, LAMBDA line : line \o "\n"))

\* a list that goes on after an empty line and a line of spaces
ImportedAcrossBlankLine ==
    /\ last.op = "importMarkdown"
    /\ last.exc = Null
    /\ last.markdown = "- a\n\n  \np"
    /\ Len(blocks) = 1
    /\ blocks[1].type = "list"
    /\ blocks[1].content.text = "- a\np"

\* C28: the import keeps every non-blank line of the text, once and in its
\* place: the lines of the contents of the blocks, taken block after block,
\* are the non-blank lines of the text, and no block is without content.
ImportKeepsEveryLine ==
    last.op = "importMarkdown" /\ last.exc = Null =>
        LET kept == SelectSeq(SplitLines(last.markdown), LAMBDA line : Trim(line) # "")
            RECURSIVE LinesOf(_)
            LinesOf(n) ==
                IF n = 0 THEN <<>>
                ELSE LinesOf(n - 1) \o SplitLines(blocks[n].content.text)
        IN  /\ LinesOf(Len(blocks)) = kept
            /\ \A k \in DOMAIN blocks : Trim(blocks[k].content.text) # ""

\* a heading, a paragraph and a list imported from a text with an empty line
ImportedThreeBlocks ==
    /\ last.op = "importMarkdown"
    /\ last.exc = Null
    /\ last.markdown = "# T\np\n\n- a"
    /\ [k \in DOMAIN blocks |-> blocks[k].content.text] = <<"# T", "p", "- a">>

=============================================================================
